---- MODULE Spec2Model ----
(***************************************************************************)
(* graph-sql: the SQL-backed graph.Store (store.go, config.go).            *)
(*                                                                         *)
(* The database is two tables.  A table is a bag of rows: SQL gives a     *)
(* table no order and the schema (config.go) puts no uniqueness on hash,   *)
(* source_hash or target_hash, so equal rows may occur more than once.     *)
(* The surrogate id column is written and read by no statement of the      *)
(* store and is not part of a row here.                                    *)
(*                                                                         *)
(* A table exists or not (SetupTables, DestroyTables); the rows of a table  *)
(* that does not exist are the empty bag.  A call that issues more than    *)
(* one statement can be in flight between two of them (calls).             *)
(*                                                                         *)
(* Go values are records [kind, n, s]; byte strings are sequences of byte  *)
(* values; JSON documents (the []byte that encoding/json produces) are     *)
(* records [j, n, s, kv]; errors are wrap chains, outermost message first. *)
(***************************************************************************)
EXTENDS Integers, Sequences, FiniteSets, Bags, TLC

VARIABLES T, tables, calls, vertices, edges, last, addedSince

vars == <<T, tables, calls, vertices, edges, last, addedSince>>

(* ---------------------------------------------------------------- bounds *)

\* Rows held by the two tables together.
MaxRows == 2

\* Rows held by the two tables together in the runs of the repository's tests.
MaxTestRows == 6

(* ------------------------------------------------------------- Go values *)

GoNil == [kind |-> "nil", n |-> 0, s |-> <<>>]
GoInt(n) == [kind |-> "int", n |-> n, s |-> <<>>]
GoInt64(n) == [kind |-> "int64", n |-> n, s |-> <<>>]
GoFloat64(n) == [kind |-> "float64", n |-> n, s |-> <<>>]
GoString(s) == [kind |-> "string", n |-> 0, s |-> s]
GoChan == [kind |-> "chan", n |-> 0, s |-> <<>>]

\* A map[string]string: nil, or a set of <<key, value>> pairs.
NilMap == [isNil |-> TRUE, kv |-> {}]
Map(kv) == [isNil |-> FALSE, kv |-> kv]

\* Byte strings used as inputs: "abc", "xyz" and "happy" (ASCII), the single byte
\* 0xFF (not valid UTF-8) and U+FFFD in UTF-8.
abc == <<97, 98, 99>>
xyz == <<120, 121, 122>>
happy == <<104, 97, 112, 112, 121>>
BadByte == <<255>>
RuneError == <<239, 191, 189>>

(* ---------------------------------------------------------------- errors *)

Nil == <<>>
ErrNoRows == <<"sql: no rows in result set">>
ErrEdgeNotFound == <<"edge not found">>
ErrUnsupportedType == <<"json: unsupported type">>
ErrUnmarshalType == <<"json: cannot unmarshal into Go value">>

\* What the database answers to CREATE TABLE of a table that exists and to a
\* statement on a table that does not, and what the driver reports when the
\* connection is lost.
ErrTableExists == <<"table already exists">>
ErrNoSuchTable == <<"table does not exist">>
ErrBadConn == <<"driver: bad connection">>

\* fmt.Errorf("<msg>: %w", err)
Errorf(msg, err) == <<msg>> \o err

\* errors.Is(err, target)
ErrorsIs(err, target) ==
    \E i \in 1..Len(err) : SubSeq(err, i, Len(err)) = target

(* ------------------------------------------------------- encoding/json *)

JSONNull == [j |-> "null", n |-> 0, s |-> <<>>, kv |-> {}]
JSONNumber(n) == [j |-> "number", n |-> n, s |-> <<>>, kv |-> {}]
JSONString(s) == [j |-> "string", n |-> 0, s |-> s, kv |-> {}]
JSONObject(kv) == [j |-> "object", n |-> 0, s |-> <<>>, kv |-> kv]

\* json.Marshal writes a string "coerced to valid UTF-8, replacing invalid bytes
\* with the Unicode replacement rune".  Of the multi-byte runes only U+FFFD occurs
\* in the inputs, so every other byte above ASCII is an invalid one.
RECURSIVE ToValidUTF8(_)
ToValidUTF8(s) ==
    IF s = <<>> THEN <<>>
    ELSE IF Head(s) < 128 THEN <<Head(s)>> \o ToValidUTF8(Tail(s))
    ELSE IF Len(s) >= Len(RuneError) /\ SubSeq(s, 1, Len(RuneError)) = RuneError
         THEN RuneError \o ToValidUTF8(SubSeq(s, Len(RuneError) + 1, Len(s)))
    ELSE RuneError \o ToValidUTF8(Tail(s))

\* json.Marshal(value) for a value of the store's type T: [doc, err].
Marshal(v) ==
    CASE v.kind \in {"int", "int64", "float64"} -> [doc |-> JSONNumber(v.n), err |-> Nil]
      [] v.kind = "string" -> [doc |-> JSONString(ToValidUTF8(v.s)), err |-> Nil]
      [] v.kind = "nil" -> [doc |-> JSONNull, err |-> Nil]
      [] OTHER -> [doc |-> JSONNull, err |-> ErrUnsupportedType]

\* json.Marshal(properties.Attributes): a nil map is written as null, keys and
\* values are coerced like every string.
MarshalMap(m) ==
    IF m.isNil THEN JSONNull
    ELSE JSONObject({<<ToValidUTF8(p[1]), ToValidUTF8(p[2])>> : p \in m.kv})

\* "var value T": the zero value of the store's type T.
Zero(t) == IF t = "int" THEN GoInt(0) ELSE GoNil

\* json.Unmarshal(valueBytes, &value) with value of static type t, starting from
\* the zero value: [value, err].  Into an int a number is stored and null is a
\* no-op; into an interface a number becomes a float64, a string a string, null nil.
Unmarshal(doc, t) ==
    CASE t = "int" /\ doc.j = "number" -> [value |-> GoInt(doc.n), err |-> Nil]
      [] t = "int" /\ doc.j = "null" -> [value |-> Zero(t), err |-> Nil]
      [] t = "any" /\ doc.j = "number" -> [value |-> GoFloat64(doc.n), err |-> Nil]
      [] t = "any" /\ doc.j = "string" -> [value |-> GoString(doc.s), err |-> Nil]
      [] t = "any" /\ doc.j = "null" -> [value |-> GoNil, err |-> Nil]
      [] OTHER -> [value |-> Zero(t), err |-> ErrUnmarshalType]

\* json.Unmarshal(attributesBytes, &properties.Attributes) into a nil map.
UnmarshalMap(doc) ==
    CASE doc.j = "null" -> [value |-> NilMap, err |-> Nil]
      [] doc.j = "object" -> [value |-> Map(doc.kv), err |-> Nil]
      [] OTHER -> [value |-> NilMap, err |-> ErrUnmarshalType]

(* --------------------------------------------------------- database/sql *)

\* edge.Properties.Data as an argument of a statement is converted to a driver
\* value: an int becomes an int64; nil (NULL), a string, an int64 and a float64 are
\* kept.  The data of the model are values the driver stores.
ConvertValue(d) ==
    IF d.kind \in {"int", "int64"} THEN GoInt64(d.n) ELSE d

\* Scan(&edge.Properties.Data) into an interface: the driver value as it is.
ScanAny(val) == val

\* SQL NULL in a key column (the hash columns are nullable, the keys of the model
\* are not NULL).
NULL == 0

\* SELECT ... WHERE: the rows of table B that are in S, the rows that satisfy the
\* WHERE clause.
Select(B, S) == [r \in S \cap DOMAIN B |-> B[r]]

RECURSIVE SumOver(_, _)
SumOver(B, S) ==
    IF S = {} THEN 0
    ELSE LET r == CHOOSE x \in S : TRUE IN B[r] + SumOver(B, S \ {r})

\* The number of rows of B.
Size(B) == SumOver(B, DOMAIN B)

\* INSERT INTO ... VALUES (r)
Insert(B, r) ==
    [x \in DOMAIN B \cup {r} |-> IF x \in DOMAIN B THEN (IF x = r THEN B[x] + 1 ELSE B[x]) ELSE 1]

\* DELETE FROM ... WHERE: the rows in S go.
Delete(B, S) == Select(B, DOMAIN B \ S)

\* UPDATE ... SET ... WHERE: every row r in S becomes set[r].
Update(B, S, set) ==
    LET new(r) == IF r \in S THEN set[r] ELSE r
        rows == {new(r) : r \in DOMAIN B}
    IN [x \in rows |-> SumOver(B, {r \in DOMAIN B : new(r) = x})]

\* SELECT count(col): the rows in S, those in which col is not NULL.
Count(B, S) == Size(Select(B, S))

\* Table B less one copy of row r.
Less(B, r) == [x \in {y \in DOMAIN B : y # r \/ B[y] > 1} |-> IF x = r THEN B[x] - 1 ELSE B[x]]

\* The orders in which a query without ORDER BY may return the rows of B.
RECURSIVE Orders(_)
Orders(B) ==
    IF DOMAIN B = {} THEN {<<>>}
    ELSE UNION {{<<r>> \o rest : rest \in Orders(Less(B, r))} : r \in DOMAIN B}

\* An empty table.
EmptyTable == [r \in {} |-> 0]

\* The table names of DefaultConfig.
VerticesTable == "vertices"
EdgesTable == "edges"

\* The goroutines that call the store, and a caller that is in no call.
Callers == {1, 2}
Idle == [op |-> "none", done |-> 0]

(* ---------------------------------------------------------------- inputs *)

\* The hashes (type K = int, as in the tests) and the types T of the model.
Keys == {1, 2}
Types == {"int", "any"}

ValuesOf(t) ==
    IF t = "int" THEN {GoInt(1), GoInt(2)}
    ELSE {GoInt(1), GoFloat64(1), GoString(BadByte), GoChan}

\* graph.VertexProperties{Attributes, Weight}
ZeroVertexProperties == [Attributes |-> NilMap, Weight |-> 0]
VertexPropertiesSet ==
    { ZeroVertexProperties,
      [Attributes |-> Map({<<abc, xyz>>}), Weight |-> 5],
      [Attributes |-> Map({<<abc, BadByte>>}), Weight |-> 0] }

\* graph.EdgeProperties{Attributes, Weight, Data}
ZeroEdgeProperties == [Attributes |-> NilMap, Weight |-> 0, Data |-> GoNil]
EdgePropertiesSet ==
    { ZeroEdgeProperties,
      [Attributes |-> Map({<<abc, xyz>>}), Weight |-> 5, Data |-> GoString(happy)],
      [Attributes |-> Map({<<abc, BadByte>>}), Weight |-> 0, Data |-> GoNil],
      [Attributes |-> NilMap, Weight |-> 5, Data |-> GoInt(5)] }

(* ----------------------------------------------------------------- state *)

\* What the last call was given and what it returned (fields a call does not use
\* keep the values of NoCall).  dbErr is the error the database gave the call, Nil
\* if every statement of the call went through.
NoCall ==
    [op |-> "none", hash |-> NULL, source |-> NULL, target |-> NULL,
     value |-> GoNil, vprops |-> ZeroVertexProperties, eprops |-> ZeroEdgeProperties,
     err |-> Nil, count |-> 0, keys |-> <<>>, list |-> <<>>, dbErr |-> Nil]

\* New, then SetupTables on an empty database, for a store of type Store[int, T].
Init ==
    /\ T \in Types
    /\ tables = {VerticesTable, EdgesTable}
    /\ calls = [c \in Callers |-> Idle]
    /\ vertices = EmptyTable
    /\ edges = EmptyTable
    /\ last = NoCall
    /\ addedSince = {}

(* ------------------------------------------------------------- vertices *)

\* A faulty AddVertex: the value and the attributes are bound to each other's
\* column.
AddVertexSwapped(hash, value, properties) ==
    LET valueBytes == Marshal(value)
        attributeBytes == MarshalMap(properties.Attributes)
        row == [hash |-> hash, value |-> attributeBytes,
                weight |-> properties.Weight, attributes |-> valueBytes.doc]
    IN /\ vertices' = IF valueBytes.err # Nil THEN vertices ELSE Insert(vertices, row)
       /\ last' = [NoCall EXCEPT !.op = "AddVertex", !.hash = hash, !.value = value,
                                 !.vprops = properties, !.err = valueBytes.err]
       /\ UNCHANGED <<T, tables, calls, edges, addedSince>>

\* A faulty AddVertex: hash is a unique key, a second row of a hash is refused.
AddVertexUnique(hash, value, properties) ==
    LET valueBytes == Marshal(value)
        attributeBytes == MarshalMap(properties.Attributes)
        row == [hash |-> hash, value |-> valueBytes.doc,
                weight |-> properties.Weight, attributes |-> attributeBytes]
        taken == \E r \in DOMAIN vertices : r.hash = hash
    IN /\ vertices' = IF valueBytes.err # Nil \/ taken THEN vertices ELSE Insert(vertices, row)
       /\ last' = [NoCall EXCEPT !.op = "AddVertex", !.hash = hash, !.value = value,
                                 !.vprops = properties,
                                 !.err = IF valueBytes.err # Nil THEN valueBytes.err
                                         ELSE IF taken THEN <<"duplicate entry">>
                                         ELSE Nil]
       /\ UNCHANGED <<T, tables, calls, edges, addedSince>>

AddVertex(hash, value, properties) ==
    LET valueBytes == Marshal(value)
        attributeBytes == MarshalMap(properties.Attributes)
        row == [hash |-> hash, value |-> valueBytes.doc,
                weight |-> properties.Weight, attributes |-> attributeBytes]
    IN /\ vertices' = IF valueBytes.err # Nil THEN vertices ELSE Insert(vertices, row)
       /\ last' = [NoCall EXCEPT !.op = "AddVertex", !.hash = hash, !.value = value,
                                 !.vprops = properties, !.err = valueBytes.err]
       /\ UNCHANGED <<T, tables, calls, edges, addedSince>>

\* A faulty RemoveVertex: the DELETE has no WHERE clause.
RemoveVertexAll(hash) ==
    /\ vertices' = Delete(vertices, DOMAIN vertices)
    /\ last' = [NoCall EXCEPT !.op = "RemoveVertex", !.hash = hash, !.err = Nil]
    /\ UNCHANGED <<T, tables, calls, edges, addedSince>>

\* A faulty RemoveVertex: the edges of the vertex are deleted with it.
RemoveVertexCascade(hash) ==
    /\ vertices' = Delete(vertices, {r \in DOMAIN vertices : r.hash = hash})
    /\ edges' = Delete(edges, {r \in DOMAIN edges : r.source_hash = hash \/ r.target_hash = hash})
    /\ last' = [NoCall EXCEPT !.op = "RemoveVertex", !.hash = hash, !.err = Nil]
    /\ UNCHANGED <<T, tables, calls, addedSince>>

RemoveVertex(hash) ==
    /\ vertices' = Delete(vertices, {r \in DOMAIN vertices : r.hash = hash})
    /\ last' = [NoCall EXCEPT !.op = "RemoveVertex", !.hash = hash, !.err = Nil]
    /\ UNCHANGED <<T, tables, calls, edges, addedSince>>

\* What Vertex returns for one selected row: the weight is scanned before the
\* payloads are decoded, and the first decode error ends the call.
DecodeVertex(r, t) ==
    LET v == Unmarshal(r.value, t)
        a == UnmarshalMap(r.attributes)
    IN IF v.err # Nil
       THEN [value |-> v.value, properties |-> [Attributes |-> NilMap, Weight |-> r.weight],
             err |-> Errorf("failed to unmarshal value", v.err)]
       ELSE IF a.err # Nil
       THEN [value |-> v.value, properties |-> [Attributes |-> NilMap, Weight |-> r.weight],
             err |-> Errorf("failed to unmarshal attributes", a.err)]
       ELSE [value |-> v.value, properties |-> [Attributes |-> a.value, Weight |-> r.weight],
             err |-> Nil]

\* A faulty Vertex query: an empty result is not reported, the zero value is
\* returned with no error.
VertexResultsZero(V, t, hash) ==
    LET rows == DOMAIN Select(V, {r \in DOMAIN V : r.hash = hash})
    IN IF rows = {}
       THEN {[value |-> Zero(t), properties |-> ZeroVertexProperties, err |-> Nil]}
       ELSE {DecodeVertex(r, t) : r \in rows}

\* The results Vertex(hash) can return on table V: QueryRow takes the first row of
\* the result, which is any of the matching rows, and reports no row as ErrNoRows.
VertexResults(V, t, hash) ==
    LET rows == DOMAIN Select(V, {r \in DOMAIN V : r.hash = hash})
    IN IF rows = {}
       THEN {[value |-> Zero(t), properties |-> ZeroVertexProperties,
              err |-> Errorf("failed to query vertex", ErrNoRows)]}
       ELSE {DecodeVertex(r, t) : r \in rows}

\* A faulty Vertex: the rows it reads are deleted.
VertexTake(hash) ==
    /\ \E res \in VertexResults(vertices, T, hash) :
          last' = [NoCall EXCEPT !.op = "Vertex", !.hash = hash, !.value = res.value,
                                 !.vprops = res.properties, !.err = res.err]
    /\ vertices' = Delete(vertices, {r \in DOMAIN vertices : r.hash = hash})
    /\ UNCHANGED <<T, tables, calls, edges, addedSince>>

Vertex(hash) ==
    /\ \E res \in VertexResults(vertices, T, hash) :
          last' = [NoCall EXCEPT !.op = "Vertex", !.hash = hash, !.value = res.value,
                                 !.vprops = res.properties, !.err = res.err]
    /\ UNCHANGED <<T, tables, calls, vertices, edges, addedSince>>

\* A faulty ListVertices: an empty result is reported as sql.ErrNoRows.
ListVerticesNoRows ==
    /\ \E rows \in Orders(vertices) :
          last' = [NoCall EXCEPT !.op = "ListVertices",
                                 !.keys = [i \in 1..Len(rows) |-> rows[i].hash],
                                 !.err = IF Len(rows) = 0
                                         THEN Errorf("failed to query vertices", ErrNoRows)
                                         ELSE Nil]
    /\ UNCHANGED <<T, tables, calls, vertices, edges, addedSince>>

ListVertices ==
    /\ \E rows \in Orders(vertices) :
          last' = [NoCall EXCEPT !.op = "ListVertices",
                                 !.keys = [i \in 1..Len(rows) |-> rows[i].hash],
                                 !.err = Nil]
    /\ UNCHANGED <<T, tables, calls, vertices, edges, addedSince>>

\* SELECT count(hash) FROM vertices
CountVertices(V) == Count(V, {r \in DOMAIN V : r.hash # NULL})

VertexCount ==
    /\ last' = [NoCall EXCEPT !.op = "VertexCount", !.count = CountVertices(vertices),
                              !.err = Nil]
    /\ UNCHANGED <<T, tables, calls, vertices, edges, addedSince>>

(* ---------------------------------------------------------------- edges *)

\* A faulty WHERE clause: the target is not compared.
MatchesSource(r, sourceHash, targetHash) ==
    r.source_hash = sourceHash

\* A faulty WHERE clause: the pair is compared in either direction.
MatchesUnordered(r, sourceHash, targetHash) ==
    \/ r.source_hash = sourceHash /\ r.target_hash = targetHash
    \/ r.source_hash = targetHash /\ r.target_hash = sourceHash

\* The WHERE clause of RemoveEdge, Edge and UpdateEdge: the exact ordered pair.
Matches(r, sourceHash, targetHash) ==
    r.source_hash = sourceHash /\ r.target_hash = targetHash

\* A faulty AddEdge: a row is added to the vertices table for the source hash.
AddEdgeCreatesVertex(sourceHash, targetHash, edge) ==
    LET attributesBytes == MarshalMap(edge.Properties.Attributes)
        data == ConvertValue(edge.Properties.Data)
        row == [source_hash |-> sourceHash, target_hash |-> targetHash,
                weight |-> edge.Properties.Weight, attributes |-> attributesBytes,
                data |-> data]
        vertex == [hash |-> sourceHash, value |-> Marshal(GoNil).doc,
                   weight |-> 0, attributes |-> MarshalMap(NilMap)]
    IN /\ edges' = Insert(edges, row)
       /\ vertices' = Insert(vertices, vertex)
       /\ addedSince' = addedSince \cup {<<sourceHash, targetHash>>}
       /\ last' = [NoCall EXCEPT !.op = "AddEdge", !.source = sourceHash,
                                 !.target = targetHash, !.eprops = edge.Properties,
                                 !.err = Nil]
       /\ UNCHANGED <<T, tables, calls>>

\* AddEdge inserts under the hashes it is given; edge.Source and edge.Target are
\* not read.
AddEdge(sourceHash, targetHash, edge) ==
    LET attributesBytes == MarshalMap(edge.Properties.Attributes)
        data == ConvertValue(edge.Properties.Data)
        row == [source_hash |-> sourceHash, target_hash |-> targetHash,
                weight |-> edge.Properties.Weight, attributes |-> attributesBytes,
                data |-> data]
    IN /\ edges' = Insert(edges, row)
       /\ addedSince' = addedSince \cup {<<sourceHash, targetHash>>}
       /\ last' = [NoCall EXCEPT !.op = "AddEdge", !.source = sourceHash,
                                 !.target = targetHash, !.eprops = edge.Properties,
                                 !.err = Nil]
       /\ UNCHANGED <<T, tables, calls, vertices>>

\* A faulty RemoveEdge: a DELETE that affected no row is reported as an error.
RemoveEdgeStrict(sourceHash, targetHash) ==
    /\ edges' = Delete(edges, {r \in DOMAIN edges : Matches(r, sourceHash, targetHash)})
    /\ addedSince' = addedSince \ {<<sourceHash, targetHash>>}
    /\ last' = [NoCall EXCEPT
                   !.op = "RemoveEdge", !.source = sourceHash, !.target = targetHash,
                   !.err = IF DOMAIN Select(edges, {r \in DOMAIN edges : Matches(r, sourceHash, targetHash)}) = {}
                           THEN ErrEdgeNotFound ELSE Nil]
    /\ UNCHANGED <<T, tables, calls, vertices>>

RemoveEdge(sourceHash, targetHash) ==
    /\ edges' = Delete(edges, {r \in DOMAIN edges : Matches(r, sourceHash, targetHash)})
    /\ addedSince' = addedSince \ {<<sourceHash, targetHash>>}
    /\ last' = [NoCall EXCEPT !.op = "RemoveEdge", !.source = sourceHash,
                              !.target = targetHash, !.err = Nil]
    /\ UNCHANGED <<T, tables, calls, vertices>>

\* What Edge and ListEdges make of one selected row.
DecodeEdge(r) ==
    LET a == UnmarshalMap(r.attributes)
    IN [Properties |-> [Attributes |-> a.value, Weight |-> r.weight, Data |-> ScanAny(r.data)],
        err |-> IF a.err # Nil THEN Errorf("failed to unmarshal attributes", a.err) ELSE Nil]

\* The results Edge(sourceHash, targetHash) can return on table E: no row is
\* sql.ErrNoRows, which Edge turns into graph.ErrEdgeNotFound.
EdgeResults(E, sourceHash, targetHash) ==
    LET rows == DOMAIN Select(E, {r \in DOMAIN E : Matches(r, sourceHash, targetHash)})
    IN IF rows = {}
       THEN LET err == ErrNoRows
            IN {[Properties |-> ZeroEdgeProperties,
                 err |-> IF ErrorsIs(err, ErrNoRows) THEN ErrEdgeNotFound
                         ELSE Errorf("failed to scan row", err)]}
       ELSE {DecodeEdge(r) : r \in rows}

Edge(sourceHash, targetHash) ==
    /\ \E res \in EdgeResults(edges, sourceHash, targetHash) :
          last' = [NoCall EXCEPT !.op = "Edge", !.source = sourceHash,
                                 !.target = targetHash, !.eprops = res.Properties,
                                 !.err = res.err]
    /\ UNCHANGED <<T, tables, calls, vertices, edges, addedSince>>

\* A faulty ListEdges: SELECT DISTINCT, equal rows are returned once.
ListEdgesDistinct ==
    /\ \E rows \in Orders([r \in DOMAIN edges |-> 1]) :
          LET bad == {i \in 1..Len(rows) : DecodeEdge(rows[i]).err # Nil}
          IN last' = [NoCall EXCEPT
                         !.op = "ListEdges",
                         !.list = IF bad # {} THEN <<>>
                                  ELSE [i \in 1..Len(rows) |->
                                          [Source |-> rows[i].source_hash,
                                           Target |-> rows[i].target_hash,
                                           Properties |-> DecodeEdge(rows[i]).Properties]],
                         !.err = IF bad # {}
                                 THEN DecodeEdge(rows[CHOOSE i \in bad : \A j \in bad : i <= j]).err
                                 ELSE Nil]
    /\ UNCHANGED <<T, tables, calls, vertices, edges, addedSince>>

\* ListEdges decodes row after row; one row that fails to decode ends the call
\* with the error and no list.
ListEdges ==
    /\ \E rows \in Orders(edges) :
          LET bad == {i \in 1..Len(rows) : DecodeEdge(rows[i]).err # Nil}
          IN last' = [NoCall EXCEPT
                         !.op = "ListEdges",
                         !.list = IF bad # {} THEN <<>>
                                  ELSE [i \in 1..Len(rows) |->
                                          [Source |-> rows[i].source_hash,
                                           Target |-> rows[i].target_hash,
                                           Properties |-> DecodeEdge(rows[i]).Properties]],
                         !.err = IF bad # {}
                                 THEN DecodeEdge(rows[CHOOSE i \in bad : \A j \in bad : i <= j]).err
                                 ELSE Nil]
    /\ UNCHANGED <<T, tables, calls, vertices, edges, addedSince>>

\* A faulty count: by the data column, which is NULL in the rows without data.
CountEdgesByData(E) == Count(E, {r \in DOMAIN E : r.data # GoNil})

\* SELECT count(source_hash) FROM edges
CountEdges(E) == Count(E, {r \in DOMAIN E : r.source_hash # NULL})

EdgeCount ==
    /\ last' = [NoCall EXCEPT !.op = "EdgeCount", !.count = CountEdges(edges),
                              !.err = Nil]
    /\ UNCHANGED <<T, tables, calls, vertices, edges, addedSince>>

\* A faulty UpdateEdge: the data column is not set.
UpdateEdgeKeepsData(sourceHash, targetHash, edge) ==
    LET attributesBytes == MarshalMap(edge.Properties.Attributes)
        set == [r \in DOMAIN edges |->
                  [r EXCEPT !.weight = edge.Properties.Weight,
                            !.attributes = attributesBytes]]
    IN /\ edges' = Update(edges, {r \in DOMAIN edges : Matches(r, sourceHash, targetHash)}, set)
       /\ last' = [NoCall EXCEPT !.op = "UpdateEdge", !.source = sourceHash,
                                 !.target = targetHash, !.eprops = edge.Properties,
                                 !.err = Nil]
       /\ UNCHANGED <<T, tables, calls, vertices, addedSince>>

\* A faulty UpdateEdge: a pair without a row is inserted.
UpdateEdgeUpsert(sourceHash, targetHash, edge) ==
    LET attributesBytes == MarshalMap(edge.Properties.Attributes)
        data == ConvertValue(edge.Properties.Data)
        set == [r \in DOMAIN edges |->
                  [r EXCEPT !.weight = edge.Properties.Weight,
                            !.attributes = attributesBytes,
                            !.data = data]]
        row == [source_hash |-> sourceHash, target_hash |-> targetHash,
                weight |-> edge.Properties.Weight, attributes |-> attributesBytes,
                data |-> data]
    IN /\ edges' = IF DOMAIN Select(edges, {r \in DOMAIN edges : Matches(r, sourceHash, targetHash)}) = {}
                   THEN Insert(edges, row)
                   ELSE Update(edges, {r \in DOMAIN edges : Matches(r, sourceHash, targetHash)}, set)
       /\ last' = [NoCall EXCEPT !.op = "UpdateEdge", !.source = sourceHash,
                                 !.target = targetHash, !.eprops = edge.Properties,
                                 !.err = Nil]
       /\ UNCHANGED <<T, tables, calls, vertices, addedSince>>

UpdateEdge(sourceHash, targetHash, edge) ==
    LET attributesBytes == MarshalMap(edge.Properties.Attributes)
        data == ConvertValue(edge.Properties.Data)
        set == [r \in DOMAIN edges |->
                  [r EXCEPT !.weight = edge.Properties.Weight,
                            !.attributes = attributesBytes,
                            !.data = data]]
    IN /\ edges' = Update(edges, {r \in DOMAIN edges : Matches(r, sourceHash, targetHash)}, set)
       /\ last' = [NoCall EXCEPT !.op = "UpdateEdge", !.source = sourceHash,
                                 !.target = targetHash, !.eprops = edge.Properties,
                                 !.err = Nil]
       /\ UNCHANGED <<T, tables, calls, vertices, addedSince>>

(* --------------------------------------------------------------- schema *)

\* The message of the error SetupTables and DestroyTables return for a table.
FailedToSetUp(table) == "failed to set up " \o table \o " table"

\* db.Exec of CREATE TABLE on the tables S: the error of the statement, Nil if it
\* creates the table.  lost: the connection is lost at this statement.
CreateTable(S, table, lost) ==
    IF lost THEN ErrBadConn ELSE IF table \in S THEN ErrTableExists ELSE Nil

\* db.Exec of DROP TABLE on the tables S.
DropTable(S, table, lost) ==
    IF lost THEN ErrBadConn ELSE IF table \notin S THEN ErrNoSuchTable ELSE Nil

\* A faulty SetupTables: when the edges table fails, the vertices table it has
\* created is dropped again.
SetupTablesRollback(lost) ==
    LET err1 == CreateTable(tables, VerticesTable, 1 \in lost)
        tables1 == tables \cup {VerticesTable}
        err2 == CreateTable(tables1, EdgesTable, 2 \in lost)
    IN /\ tables' = IF err1 # Nil THEN tables
                    ELSE IF err2 # Nil THEN tables
                    ELSE tables1 \cup {EdgesTable}
       /\ last' = [NoCall EXCEPT
                      !.op = "SetupTables",
                      !.err = IF err1 # Nil THEN Errorf(FailedToSetUp(VerticesTable), err1)
                              ELSE IF err2 # Nil THEN Errorf(FailedToSetUp(EdgesTable), err2)
                              ELSE Nil,
                      !.dbErr = IF err1 # Nil THEN err1 ELSE err2]
       /\ UNCHANGED <<T, calls, vertices, edges, addedSince>>

\* SetupTables: CREATE TABLE vertices, then CREATE TABLE edges; the first statement
\* that fails ends the call.  lost: the statements at which the connection is lost,
\* if they are issued.
SetupTables(lost) ==
    LET err1 == CreateTable(tables, VerticesTable, 1 \in lost)
        tables1 == tables \cup {VerticesTable}
        err2 == CreateTable(tables1, EdgesTable, 2 \in lost)
    IN /\ tables' = IF err1 # Nil THEN tables
                    ELSE IF err2 # Nil THEN tables1
                    ELSE tables1 \cup {EdgesTable}
       /\ last' = [NoCall EXCEPT
                      !.op = "SetupTables",
                      !.err = IF err1 # Nil THEN Errorf(FailedToSetUp(VerticesTable), err1)
                              ELSE IF err2 # Nil THEN Errorf(FailedToSetUp(EdgesTable), err2)
                              ELSE Nil,
                      !.dbErr = IF err1 # Nil THEN err1 ELSE err2]
       /\ UNCHANGED <<T, calls, vertices, edges, addedSince>>

\* A faulty DestroyTables: the tables are dropped in the order of their creation.
DestroyTablesVerticesFirst(lost) ==
    LET err1 == DropTable(tables, VerticesTable, 1 \in lost)
        tables1 == tables \ {VerticesTable}
        err2 == DropTable(tables1, EdgesTable, 2 \in lost)
    IN /\ tables' = IF err1 # Nil THEN tables
                    ELSE IF err2 # Nil THEN tables1
                    ELSE tables1 \ {EdgesTable}
       /\ vertices' = IF err1 # Nil THEN vertices ELSE EmptyTable
       /\ edges' = IF err1 # Nil \/ err2 # Nil THEN edges ELSE EmptyTable
       /\ addedSince' = IF err1 # Nil \/ err2 # Nil THEN addedSince ELSE {}
       /\ last' = [NoCall EXCEPT
                      !.op = "DestroyTables",
                      !.err = IF err1 # Nil THEN Errorf(FailedToSetUp(VerticesTable), err1)
                              ELSE IF err2 # Nil THEN Errorf(FailedToSetUp(EdgesTable), err2)
                              ELSE Nil,
                      !.dbErr = IF err1 # Nil THEN err1 ELSE err2]
       /\ UNCHANGED <<T, calls>>

\* DestroyTables: DROP TABLE edges, then DROP TABLE vertices; the first statement
\* that fails ends the call.  A dropped table loses its rows.  The error has the
\* words of SetupTables.
DestroyTables(lost) ==
    LET err1 == DropTable(tables, EdgesTable, 1 \in lost)
        tables1 == tables \ {EdgesTable}
        err2 == DropTable(tables1, VerticesTable, 2 \in lost)
    IN /\ tables' = IF err1 # Nil THEN tables
                    ELSE IF err2 # Nil THEN tables1
                    ELSE tables1 \ {VerticesTable}
       /\ edges' = IF err1 # Nil THEN edges ELSE EmptyTable
       /\ addedSince' = IF err1 # Nil THEN addedSince ELSE {}
       /\ vertices' = IF err1 # Nil \/ err2 # Nil THEN vertices ELSE EmptyTable
       /\ last' = [NoCall EXCEPT
                      !.op = "DestroyTables",
                      !.err = IF err1 # Nil THEN Errorf(FailedToSetUp(EdgesTable), err1)
                              ELSE IF err2 # Nil THEN Errorf(FailedToSetUp(VerticesTable), err2)
                              ELSE Nil,
                      !.dbErr = IF err1 # Nil THEN err1 ELSE err2]
       /\ UNCHANGED <<T, calls>>

(* ----------------------------------------------------- failing statements *)

\* The vertex and edge operations, and the table each one's statement works on.
DataOps ==
    {"AddVertex", "RemoveVertex", "Vertex", "ListVertices", "VertexCount",
     "AddEdge", "RemoveEdge", "Edge", "ListEdges", "EdgeCount", "UpdateEdge"}

TableOf(op) ==
    IF op \in {"AddVertex", "RemoveVertex", "Vertex", "ListVertices", "VertexCount"}
    THEN VerticesTable ELSE EdgesTable

\* What an operation returns for the error err of its statement: Vertex, Edge,
\* ListVertices and ListEdges wrap it, the others return it as it is.
Wrap(op, err) ==
    CASE op = "Vertex" -> Errorf("failed to query vertex", err)
      [] op = "ListVertices" -> Errorf("failed to query vertices", err)
      [] op = "Edge" -> Errorf("failed to scan row", err)
      [] op = "ListEdges" -> Errorf("failed to query edges", err)
      [] OTHER -> err

\* The statement of operation op fails: its table does not exist, or the connection
\* is lost (lost).  The call returns the error and zero results; no row changes.
StatementFails(op, lost) ==
    LET err == IF lost THEN ErrBadConn ELSE ErrNoSuchTable
    IN /\ lost \/ TableOf(op) \notin tables
       /\ last' = [NoCall EXCEPT !.op = op, !.err = Wrap(op, err), !.dbErr = err]
       /\ UNCHANGED <<T, tables, calls, vertices, edges, addedSince>>

\* ListVertices when the connection is lost after n rows were read: rows.Next()
\* returns false, the loop ends as it does after the last row, and rows.Err() is
\* not read.
ListVerticesLost ==
    /\ VerticesTable \in tables
    /\ \E rows \in Orders(vertices) : \E n \in 0..Len(rows) :
          last' = [NoCall EXCEPT !.op = "ListVertices",
                                 !.keys = [i \in 1..n |-> rows[i].hash],
                                 !.err = Nil,
                                 !.dbErr = ErrBadConn]
    /\ UNCHANGED <<T, tables, calls, vertices, edges, addedSince>>

\* ListEdges when the connection is lost after n rows were read (a row that fails
\* to decode before that ends the call first).
ListEdgesLost ==
    /\ EdgesTable \in tables
    /\ \E rows \in Orders(edges) : \E n \in 0..Len(rows) :
          LET bad == {i \in 1..n : DecodeEdge(rows[i]).err # Nil}
          IN last' = [NoCall EXCEPT
                         !.op = "ListEdges",
                         !.list = IF bad # {} THEN <<>>
                                  ELSE [i \in 1..n |->
                                          [Source |-> rows[i].source_hash,
                                           Target |-> rows[i].target_hash,
                                           Properties |-> DecodeEdge(rows[i]).Properties]],
                         !.err = IF bad # {}
                                 THEN DecodeEdge(rows[CHOOSE i \in bad : \A j \in bad : i <= j]).err
                                 ELSE Nil,
                         !.dbErr = IF bad # {} THEN Nil ELSE ErrBadConn]
    /\ UNCHANGED <<T, tables, calls, vertices, edges, addedSince>>

(* --------------------------------------------------------- specification *)

\* A graph.Edge[K] as the callers build it.
EdgeOf(sourceHash, targetHash, properties) ==
    [Source |-> sourceHash, Target |-> targetHash, Properties |-> properties]

Rows == Size(vertices) + Size(edges)

Next ==
    \/ \E hash \in Keys, value \in ValuesOf(T), properties \in VertexPropertiesSet :
          Rows < MaxRows /\ AddVertex(hash, value, properties)
    \/ \E hash \in Keys : RemoveVertex(hash)
    \/ \E hash \in Keys : Vertex(hash)
    \/ ListVertices
    \/ VertexCount
    \/ \E s \in Keys, t \in Keys, properties \in EdgePropertiesSet :
          Rows < MaxRows /\ AddEdge(s, t, EdgeOf(s, t, properties))
    \/ \E s \in Keys, t \in Keys : RemoveEdge(s, t)
    \/ \E s \in Keys, t \in Keys : Edge(s, t)
    \/ ListEdges
    \/ EdgeCount
    \/ \E s \in Keys, t \in Keys, properties \in EdgePropertiesSet :
          UpdateEdge(s, t, EdgeOf(s, t, properties))

Spec == Init /\ [][Next]_vars

(* The calls the repository's tests make (TestEdgeCount, TestRemoveVertex,        *)
(* TestUpdateEdge): a Store[int, int], vertices 1..4 whose value is their hash,    *)
(* edges between 1 and 2, zero properties, and TestUpdateEdge's update of (1, 1).  *)

TestKeys == {1, 2, 3, 4}
TestEdgeProperties ==
    [Attributes |-> Map({<<abc, xyz>>}), Weight |-> 5, Data |-> GoString(happy)]

TestInit == Init /\ T = "int"

TestNext ==
    \/ \E hash \in TestKeys :
          Rows < MaxTestRows /\ AddVertex(hash, GoInt(hash), ZeroVertexProperties)
    \/ \E hash \in TestKeys : RemoveVertex(hash)
    \/ \E hash \in TestKeys : Vertex(hash)
    \/ VertexCount
    \/ \E s \in Keys, t \in Keys :
          Rows < MaxTestRows /\ AddEdge(s, t, EdgeOf(s, t, ZeroEdgeProperties))
    \/ \E s \in Keys, t \in Keys : RemoveEdge(s, t)
    \/ \E s \in Keys, t \in Keys : Edge(s, t)
    \/ EdgeCount
    \/ UpdateEdge(1, 1, EdgeOf(1, 1, TestEdgeProperties))

TestSpec == TestInit /\ [][TestNext]_vars

(* The store on a database that can fail: the tables are set up and destroyed by *)
(* the caller, a statement on a table that does not exist fails, and the          *)
(* connection can be lost at any statement or while result rows are read.         *)

\* A new database: no table exists.
LifecycleInit ==
    /\ T = "int"
    /\ tables = {}
    /\ calls = [c \in Callers |-> Idle]
    /\ vertices = EmptyTable
    /\ edges = EmptyTable
    /\ last = NoCall
    /\ addedSince = {}

LifecycleNext ==
    \/ \E lost \in SUBSET {1, 2} : SetupTables(lost)
    \/ \E lost \in SUBSET {1, 2} : DestroyTables(lost)
    \/ \E op \in DataOps, lost \in BOOLEAN : StatementFails(op, lost)
    \/ ListVerticesLost
    \/ ListEdgesLost
    \/ \E hash \in Keys :
          /\ VerticesTable \in tables /\ Rows < MaxRows
          /\ AddVertex(hash, GoInt(hash), ZeroVertexProperties)
    \/ \E hash \in Keys : VerticesTable \in tables /\ RemoveVertex(hash)
    \/ \E hash \in Keys : VerticesTable \in tables /\ Vertex(hash)
    \/ VerticesTable \in tables /\ ListVertices
    \/ VerticesTable \in tables /\ VertexCount
    \/ \E s \in Keys, t \in Keys :
          /\ EdgesTable \in tables /\ Rows < MaxRows
          /\ AddEdge(s, t, EdgeOf(s, t, ZeroEdgeProperties))
    \/ \E s \in Keys, t \in Keys : EdgesTable \in tables /\ RemoveEdge(s, t)
    \/ \E s \in Keys, t \in Keys : EdgesTable \in tables /\ Edge(s, t)
    \/ EdgesTable \in tables /\ ListEdges
    \/ EdgesTable \in tables /\ EdgeCount
    \/ \E s \in Keys, t \in Keys :
          EdgesTable \in tables /\ UpdateEdge(s, t, EdgeOf(s, t, TestEdgeProperties))

LifecycleSpec == LifecycleInit /\ [][LifecycleNext]_vars

(* Two goroutines call one store.  The database runs one statement at a time, so   *)
(* a step is one statement of one caller; a call that issues one statement begins   *)
(* and returns in that step, a call that issues more is in flight in between.       *)
(* The connection is not lost here.                                                 *)

\* A faulty count of statements: AddVertex first selects the rows of the hash and
\* then inserts.
StatementsIssuedCheckFirst(op) ==
    IF op \in {"SetupTables", "DestroyTables", "AddVertex"} THEN 2 ELSE 1

\* The number of statements a call of op issues when none of them fails: two Exec in
\* SetupTables and in DestroyTables, one Exec, Query or QueryRow in every other
\* operation.
StatementsIssued(op) ==
    IF op \in {"SetupTables", "DestroyTables"} THEN 2 ELSE 1

\* The tables of the statements of SetupTables and DestroyTables, in their order.
TablesOf(op) ==
    IF op = "SetupTables" THEN <<VerticesTable, EdgesTable>>
    ELSE <<EdgesTable, VerticesTable>>

\* Caller c issues the next statement of its call of SetupTables or DestroyTables.
\* The call returns when the statement fails or was the last one.
SchemaStatement(c, op) ==
    LET n == calls[c].done + 1
        table == TablesOf(op)[n]
        err == IF op = "SetupTables" THEN CreateTable(tables, table, FALSE)
               ELSE DropTable(tables, table, FALSE)
        dropped == op = "DestroyTables" /\ err = Nil
    IN /\ calls[c] = Idle \/ calls[c].op = op
       /\ tables' = IF err # Nil THEN tables
                    ELSE IF op = "SetupTables" THEN tables \cup {table}
                    ELSE tables \ {table}
       /\ vertices' = IF dropped /\ table = VerticesTable THEN EmptyTable ELSE vertices
       /\ edges' = IF dropped /\ table = EdgesTable THEN EmptyTable ELSE edges
       /\ addedSince' = IF dropped /\ table = EdgesTable THEN {} ELSE addedSince
       /\ IF err # Nil \/ n = StatementsIssued(op)
          THEN /\ calls' = [calls EXCEPT ![c] = Idle]
               /\ last' = [NoCall EXCEPT
                              !.op = op,
                              !.err = IF err # Nil THEN Errorf(FailedToSetUp(table), err)
                                      ELSE Nil,
                              !.dbErr = err]
          ELSE /\ calls' = [calls EXCEPT ![c] = [op |-> op, done |-> n]]
               /\ last' = last
       /\ UNCHANGED T

\* A call of the vertex or edge operation op, with the inputs of the tests, on the
\* tables as they are.
DataCall(op) ==
    \/ TableOf(op) \notin tables /\ StatementFails(op, FALSE)
    \/ /\ TableOf(op) \in tables
       /\ \/ /\ op = "AddVertex" /\ Rows < MaxRows
             /\ \E hash \in Keys : AddVertex(hash, GoInt(hash), ZeroVertexProperties)
          \/ op = "RemoveVertex" /\ \E hash \in Keys : RemoveVertex(hash)
          \/ op = "Vertex" /\ \E hash \in Keys : Vertex(hash)
          \/ op = "ListVertices" /\ ListVertices
          \/ op = "VertexCount" /\ VertexCount
          \/ /\ op = "AddEdge" /\ Rows < MaxRows
             /\ \E s \in Keys, t \in Keys : AddEdge(s, t, EdgeOf(s, t, ZeroEdgeProperties))
          \/ op = "RemoveEdge" /\ \E s \in Keys, t \in Keys : RemoveEdge(s, t)
          \/ op = "Edge" /\ \E s \in Keys, t \in Keys : Edge(s, t)
          \/ op = "ListEdges" /\ ListEdges
          \/ op = "EdgeCount" /\ EdgeCount
          \/ /\ op = "UpdateEdge"
             /\ \E s \in Keys, t \in Keys : UpdateEdge(s, t, EdgeOf(s, t, TestEdgeProperties))

\* Caller c, in no call, calls the vertex or edge operation op: with one statement
\* the call is one step; with more, the statements before the last one are steps
\* that leave the call in flight.
DataStatement(c, op) ==
    /\ calls[c] = Idle
    /\ IF StatementsIssued(op) > 1
       THEN /\ calls' = [calls EXCEPT ![c] = [op |-> op, done |-> 1]]
            /\ UNCHANGED <<T, tables, vertices, edges, last, addedSince>>
       ELSE DataCall(op)

ConcurrentNext ==
    \/ \E c \in Callers, op \in {"SetupTables", "DestroyTables"} : SchemaStatement(c, op)
    \/ \E c \in Callers, op \in DataOps : DataStatement(c, op)

ConcurrentSpec == LifecycleInit /\ [][ConcurrentNext]_vars

(* ------------------------------------------------------------ properties *)

\* The rows of V with key hash, and the rows of E with the ordered pair (s, t).
VertexRows(V, hash) == Select(V, {r \in DOMAIN V : r.hash = hash})
EdgeRows(E, s, t) == Select(E, {r \in DOMAIN E : Matches(r, s, t)})

\* The rows of E that start or end at key hash.
Incident(E, hash) == Select(E, {r \in DOMAIN E : r.source_hash = hash \/ r.target_hash = hash})

\* A byte string that is valid UTF-8 (over the bytes of the model: ASCII and the
\* three bytes of U+FFFD).
RECURSIVE ValidUTF8(_)
ValidUTF8(s) ==
    IF s = <<>> THEN TRUE
    ELSE IF Head(s) < 128 THEN ValidUTF8(Tail(s))
    ELSE /\ Len(s) >= 3
         /\ SubSeq(s, 1, 3) = RuneError
         /\ ValidUTF8(SubSeq(s, 4, Len(s)))

ValidMap(m) == \A p \in m.kv : ValidUTF8(p[1]) /\ ValidUTF8(p[2])

\* A value of type t whose dynamic type is the one encoding/json decodes its
\* encoding to: any int of a Store[K, int]; in an interface nil, a float64 and a
\* valid string, but no int (a JSON number decodes to float64).
Faithful(v, t) ==
    \/ t = "int" /\ v.kind = "int"
    \/ t = "any" /\ v.kind \in {"nil", "float64"}
    \/ t = "any" /\ v.kind = "string" /\ ValidUTF8(v.s)

\* Data that comes back from the driver with the type it went in with.
DriverTyped(d) == d.kind \in {"nil", "string", "int64", "float64"}

ReadOps == {"Vertex", "ListVertices", "VertexCount", "Edge", "ListEdges", "EdgeCount"}

\* C1 as stated: a Vertex(k) call that follows a successful AddVertex(k, v, {m})
\* returns v and m and no error, for every encodable v and every m.
C1_RoundTripAnyValue ==
    [][ (/\ last.op = "AddVertex" /\ last.err = Nil
         /\ last'.op = "Vertex" /\ last'.hash = last.hash)
        => (/\ last'.err = Nil
            /\ last'.value = last.value
            /\ last'.vprops.Attributes = last.vprops.Attributes) ]_vars

\* C1, amended: a Vertex(k) call that follows a successful AddVertex(k, v, {m})
\* returns v and m and no error when k's row is the only row with key k, v is a
\* value that decodes to its own type and the strings of v and m are valid UTF-8.
C1_RoundTrip ==
    [][ (/\ last.op = "AddVertex" /\ last.err = Nil
         /\ last'.op = "Vertex" /\ last'.hash = last.hash
         /\ Size(VertexRows(vertices, last.hash)) = 1
         /\ Faithful(last.value, T)
         /\ ValidMap(last.vprops.Attributes))
        => (/\ last'.err = Nil
            /\ last'.value = last.value
            /\ last'.vprops.Attributes = last.vprops.Attributes) ]_vars

\* A vertex with a float64 held in an interface and the attributes {abc: xyz} was
\* added, and Vertex reads back exactly what was added.
C1_Witness ==
    /\ last.op = "AddVertex" /\ last.err = Nil
    /\ T = "any" /\ last.value = GoFloat64(1)
    /\ last.vprops.Attributes = Map({<<abc, xyz>>})
    /\ VertexResults(vertices, T, last.hash)
         = {[value |-> last.value, properties |-> last.vprops, err |-> Nil]}

\* C2: Edge(s, t) returns graph.ErrEdgeNotFound itself exactly when no AddEdge(s, t)
\* has been applied since the last RemoveEdge(s, t), and an edge and no error in
\* every other state; this holds of the call made and of every call that could be
\* made.
C2_EdgeNotFoundIffNotAdded ==
    /\ last.op = "Edge" =>
          /\ last.err = ErrEdgeNotFound <=> <<last.source, last.target>> \notin addedSince
          /\ <<last.source, last.target>> \in addedSince => last.err = Nil
    /\ \A s \in Keys, t \in Keys : \A res \in EdgeResults(edges, s, t) :
          /\ res.err = ErrEdgeNotFound <=> <<s, t>> \notin addedSince
          /\ <<s, t>> \in addedSince => res.err = Nil

\* Edge(s, t) reported not-found while the reverse edge (t, s) was there.
C2_Witness ==
    /\ last.op = "Edge" /\ last.err = ErrEdgeNotFound
    /\ last.source # last.target
    /\ <<last.target, last.source>> \in addedSince

\* C3 as stated, step by step: over distinct keys every successful AddVertex raises
\* VertexCount() by one, every successful RemoveVertex lowers it by one, and no
\* other call changes it (so it is the number of the ones minus that of the others).
C3_CountIsAddsMinusRemoves ==
    [][ /\ (/\ last'.op = "AddVertex" /\ last'.err = Nil
            /\ Size(VertexRows(vertices, last'.hash)) = 0)
           => CountVertices(vertices') = CountVertices(vertices) + 1
        /\ (/\ last'.op = "RemoveVertex" /\ last'.err = Nil
            /\ Size(VertexRows(vertices, last'.hash)) <= 1)
           => CountVertices(vertices') = CountVertices(vertices) - 1
        /\ last'.op \notin {"AddVertex", "RemoveVertex"}
           => CountVertices(vertices') = CountVertices(vertices) ]_vars

\* C3, amended: over distinct keys every successful AddVertex raises VertexCount()
\* by one, every RemoveVertex of a key that has a row lowers it by one, a
\* RemoveVertex of a key that has no row (which succeeds too) and every other call
\* leave it unchanged; VertexCount() returns the number of rows.
C3_CountIsAddsMinusRemovals ==
    [][ /\ (/\ last'.op = "AddVertex" /\ last'.err = Nil
            /\ Size(VertexRows(vertices, last'.hash)) = 0)
           => CountVertices(vertices') = CountVertices(vertices) + 1
        /\ (/\ last'.op = "RemoveVertex" /\ last'.err = Nil
            /\ Size(VertexRows(vertices, last'.hash)) = 1)
           => CountVertices(vertices') = CountVertices(vertices) - 1
        /\ (/\ last'.op = "RemoveVertex" /\ last'.err = Nil
            /\ Size(VertexRows(vertices, last'.hash)) = 0)
           => CountVertices(vertices') = CountVertices(vertices)
        /\ last'.op \notin {"AddVertex", "RemoveVertex"}
           => CountVertices(vertices') = CountVertices(vertices)
        /\ last'.op = "VertexCount"
           => last'.err = Nil /\ last'.count = Size(vertices') ]_vars

\* Of the vertices 1, 2, 3, 4 vertex 3 is gone, and VertexCount() returned 3.
C3_Witness ==
    /\ last.op = "VertexCount" /\ last.count = 3
    /\ {r.hash : r \in DOMAIN vertices} = {1, 2, 4}
    /\ VertexResults(vertices, T, 3) = {[value |-> Zero(T), properties |-> ZeroVertexProperties,
                                         err |-> Errorf("failed to query vertex", ErrNoRows)]}

\* C4 as stated: an Edge(s, t) call that follows UpdateEdge(s, t, e2) on a pair that
\* was added returns exactly e2's weight, attributes and data, for every e2.
C4_UpdateReturnsExactlyE2 ==
    [][ (/\ last.op = "UpdateEdge" /\ last.err = Nil
         /\ <<last.source, last.target>> \in addedSince
         /\ last'.op = "Edge"
         /\ last'.source = last.source /\ last'.target = last.target)
        => (last'.err = Nil /\ last'.eprops = last.eprops) ]_vars

\* C4, amended: an Edge(s, t) call that follows UpdateEdge(s, t, e2) on a pair that
\* was added returns exactly e2's weight, attributes and data, and nothing of the
\* row's earlier contents, when e2's attributes are valid UTF-8 and e2's data is of
\* a type the driver hands back unchanged.
C4_UpdateOverwrites ==
    [][ (/\ last.op = "UpdateEdge" /\ last.err = Nil
         /\ <<last.source, last.target>> \in addedSince
         /\ last'.op = "Edge"
         /\ last'.source = last.source /\ last'.target = last.target
         /\ ValidMap(last.eprops.Attributes)
         /\ DriverTyped(last.eprops.Data))
        => (last'.err = Nil /\ last'.eprops = last.eprops) ]_vars

\* UpdateEdge wrote TestUpdateEdge's properties {abc: xyz}, 5, "happy" over a row
\* that was added, and Edge reads back exactly these.
C4_Witness ==
    /\ last.op = "UpdateEdge" /\ last.err = Nil
    /\ <<last.source, last.target>> \in addedSince
    /\ last.eprops = TestEdgeProperties
    /\ EdgeResults(edges, last.source, last.target)
         = {[Properties |-> last.eprops, err |-> Nil]}

\* C5: RemoveVertex and RemoveEdge return no error; on a key (pair) without a row
\* they change neither table; after either the key (pair) has no row, so that the
\* same removal applied again returns the same and changes nothing.
C5_IdempotentRemoval ==
    [][ /\ last'.op = "RemoveVertex" =>
              /\ last'.err = Nil
              /\ Size(VertexRows(vertices, last'.hash)) = 0
                    => vertices' = vertices /\ edges' = edges
              /\ Size(VertexRows(vertices', last'.hash)) = 0
        /\ last'.op = "RemoveEdge" =>
              /\ last'.err = Nil
              /\ Size(EdgeRows(edges, last'.source, last'.target)) = 0
                    => vertices' = vertices /\ edges' = edges
              /\ Size(EdgeRows(edges', last'.source, last'.target)) = 0 ]_vars

\* A removal was applied to tables that are still full: it found no row to remove.
C5_Witness ==
    /\ last.op \in {"RemoveVertex", "RemoveEdge"} /\ last.err = Nil
    /\ Rows = MaxRows
    /\ Size(vertices) > 0 /\ Size(edges) > 0

\* C6: RemoveVertex(k) leaves the edges table as it is: the rows that start or end
\* at k are still there, and Edge and EdgeCount answer as before.
C6_RemoveVertexKeepsEdges ==
    [][ last'.op = "RemoveVertex" =>
           /\ edges' = edges
           /\ Incident(edges', last'.hash) = Incident(edges, last'.hash)
           /\ CountEdges(edges') = CountEdges(edges)
           /\ \A x \in Keys :
                 /\ EdgeResults(edges', last'.hash, x) = EdgeResults(edges, last'.hash, x)
                 /\ EdgeResults(edges', x, last'.hash) = EdgeResults(edges, x, last'.hash) ]_vars

\* Vertex k was removed, no vertex row is left, and an edge that starts or ends
\* at k is still there.
C6_Witness ==
    /\ last.op = "RemoveVertex" /\ last.err = Nil
    /\ Size(vertices) = 0
    /\ Size(Incident(edges, last.hash)) > 0

\* C7: UpdateEdge(s, t, e) on a pair without a row returns no error and changes
\* neither table: Edge(s, t) is still not-found and EdgeCount() is unchanged.
C7_UpdateOfAbsentEdge ==
    [][ (/\ last'.op = "UpdateEdge"
         /\ Size(EdgeRows(edges, last'.source, last'.target)) = 0)
        => (/\ last'.err = Nil
            /\ edges' = edges /\ vertices' = vertices
            /\ CountEdges(edges') = CountEdges(edges)
            /\ \A res \in EdgeResults(edges', last'.source, last'.target) :
                  res.err = ErrEdgeNotFound) ]_vars

\* UpdateEdge(s, t, e) was applied with properties that are not the zero value,
\* the pair (s, t) has no row, and another edge is there.
C7_Witness ==
    /\ last.op = "UpdateEdge" /\ last.err = Nil
    /\ last.eprops = TestEdgeProperties
    /\ Size(EdgeRows(edges, last.source, last.target)) = 0
    /\ Size(edges) > 0

\* C8: EdgeCount() is the number of rows of the edges table, (s, t), (t, s) and
\* (s, s) being rows of their own: a successful AddEdge raises it by one,
\* RemoveEdge(s, t) lowers it by the number of rows with that ordered pair, and
\* AddVertex does not change it.
C8_EdgeCountIsRows ==
    [][ /\ CountEdges(edges') = Size(edges')
        /\ last'.op = "EdgeCount" => last'.err = Nil /\ last'.count = Size(edges')
        /\ (last'.op = "AddEdge" /\ last'.err = Nil)
              => CountEdges(edges') = CountEdges(edges) + 1
        /\ last'.op = "RemoveEdge"
              => CountEdges(edges') = CountEdges(edges)
                                        - Size(EdgeRows(edges, last'.source, last'.target))
        /\ last'.op = "AddVertex" => CountEdges(edges') = CountEdges(edges) ]_vars

\* TestEdgeCount's last state: the vertices 1 and 2, of the edges (1, 2), (2, 1),
\* (1, 1), (2, 2) the first three, and EdgeCount() returned 3.
C8_Witness ==
    /\ last.op = "EdgeCount" /\ last.count = 3
    /\ {r.hash : r \in DOMAIN vertices} = {1, 2}
    /\ {<<r.source_hash, r.target_hash>> : r \in DOMAIN edges} = {<<1, 2>>, <<2, 1>>, <<1, 1>>}

\* C9: Vertex(k) returns an error that reports no row (it wraps sql.ErrNoRows) when
\* no vertex row has key k, and no error when a row with key k exists.
C9_VertexNotFound ==
    last.op = "Vertex" =>
       /\ Size(VertexRows(vertices, last.hash)) = 0
             => last.err # Nil /\ ErrorsIs(last.err, ErrNoRows)
       /\ Size(VertexRows(vertices, last.hash)) > 0 => last.err = Nil

\* Vertex(k) reported not-found while a vertex with another key was there.
C9_Witness ==
    /\ last.op = "Vertex" /\ ErrorsIs(last.err, ErrNoRows)
    /\ Size(VertexRows(vertices, last.hash)) = 0
    /\ Size(vertices) > 0

\* C10: Vertex, ListVertices, VertexCount, Edge, ListEdges and EdgeCount leave the
\* vertices and the edges table as they are, whether they return an error or not.
C10_ReadsDoNotMutate ==
    [][ last'.op \in ReadOps => vertices' = vertices /\ edges' = edges ]_vars

\* A read failed (Vertex found no row) on tables that hold a vertex and an edge.
C10_Witness ==
    /\ last.op = "Vertex" /\ last.err # Nil
    /\ Size(vertices) > 0 /\ Size(edges) > 0

\* C11: SetupTables creates the vertices table first and the edges table second.
\* A call that fails returns "failed to set up <table> table" for the table whose
\* statement failed, wrapping the error of the database; a failure of the vertices
\* statement leaves the tables as they were (the edges statement is not issued), and
\* a failure of the edges statement leaves the vertices table that the call has
\* created.  No row is touched.
C11_SetupTablesStopsAtFirstFailure ==
    [][ last'.op = "SetupTables" =>
          /\ vertices' = vertices /\ edges' = edges
          /\ \/ /\ last'.err = Nil /\ last'.dbErr = Nil
                /\ tables = {} /\ tables' = {VerticesTable, EdgesTable}
             \/ /\ last'.dbErr # Nil
                /\ last'.err = Errorf(FailedToSetUp(VerticesTable), last'.dbErr)
                /\ tables' = tables
             \/ /\ last'.dbErr # Nil
                /\ last'.err = Errorf(FailedToSetUp(EdgesTable), last'.dbErr)
                /\ VerticesTable \notin tables
                /\ tables' = tables \cup {VerticesTable} ]_vars

\* SetupTables on a new database lost the connection at its second statement: the
\* error names the edges table and the vertices table is there.
C11_Witness ==
    /\ last.op = "SetupTables"
    /\ last.err = Errorf(FailedToSetUp(EdgesTable), ErrBadConn)
    /\ tables = {VerticesTable}

\* C12: DestroyTables drops the edges table before the vertices table.  A call that
\* fails returns an error that names the table whose statement failed and wraps the
\* error of the database; a failure of the edges statement leaves every table as it
\* was (the vertices table is not dropped), and a failure of the vertices statement
\* comes after the edges table and its rows are gone.
C12_DestroyTablesEdgesFirst ==
    [][ last'.op = "DestroyTables" =>
          \/ /\ last'.err = Nil /\ last'.dbErr = Nil
             /\ tables = {VerticesTable, EdgesTable} /\ tables' = {}
             /\ vertices' = EmptyTable /\ edges' = EmptyTable
          \/ /\ last'.dbErr # Nil
             /\ last'.err = Errorf(FailedToSetUp(EdgesTable), last'.dbErr)
             /\ tables' = tables
             /\ vertices' = vertices /\ edges' = edges
          \/ /\ last'.dbErr # Nil
             /\ last'.err = Errorf(FailedToSetUp(VerticesTable), last'.dbErr)
             /\ EdgesTable \in tables
             /\ tables' = tables \ {EdgesTable}
             /\ vertices' = vertices /\ edges' = EmptyTable ]_vars

\* DestroyTables lost the connection at its second statement while both tables had
\* rows: the error names the vertices table, whose rows are still there, and the
\* edges table is gone.
C12_Witness ==
    /\ last.op = "DestroyTables"
    /\ last.err = Errorf(FailedToSetUp(VerticesTable), ErrBadConn)
    /\ tables = {VerticesTable}
    /\ Size(vertices) > 0

\* C13: a call during which the database failed returns an error (that wraps the
\* error of the database); in particular ListVertices and ListEdges do so when the
\* failure comes while the result rows are read.
C13_DatabaseFailuresAreReturned ==
    last.dbErr # Nil => last.err # Nil /\ ErrorsIs(last.err, last.dbErr)

\* C14: ListVertices on a vertices table without rows and ListEdges on an edges
\* table without rows return the empty sequence and no error.
C14_ListOfEmptyTable ==
    /\ (last.op = "ListVertices" /\ Size(vertices) = 0)
          => last.keys = <<>> /\ last.err = Nil
    /\ (last.op = "ListEdges" /\ Size(edges) = 0)
          => last.list = <<>> /\ last.err = Nil

\* ListVertices returned from a vertices table without rows while the edges table
\* had rows.
C14_Witness ==
    /\ last.op = "ListVertices" /\ last.keys = <<>>
    /\ Size(vertices) = 0 /\ Size(edges) > 0

\* The rows of E whose (source, target) is not the ordered pair (s, t).
OtherEdgeRows(E, s, t) ==
    Select(E, {r \in DOMAIN E : r.source_hash # s \/ r.target_hash # t})

\* C15: RemoveEdge(s, t) and UpdateEdge(s, t, e) leave every edge row whose
\* (source, target) is not exactly (s, t) as it is, the rows of (t, s) and the rows
\* that share one key with the pair among them, and leave the vertices table as it
\* is; UpdateEdge keeps the number of rows of (s, t).
C15_OnlyTheOrderedPair ==
    [][ last'.op \in {"RemoveEdge", "UpdateEdge"} =>
          /\ vertices' = vertices
          /\ OtherEdgeRows(edges', last'.source, last'.target)
                = OtherEdgeRows(edges, last'.source, last'.target)
          /\ last'.op = "UpdateEdge" => Size(edges') = Size(edges) ]_vars

\* RemoveEdge(s, t) with s # t returned and a row of the reverse pair (t, s) is
\* in the table.
C15_Witness ==
    /\ last.op = "RemoveEdge" /\ last.source # last.target
    /\ \E r \in DOMAIN edges :
          r.source_hash = last.target /\ r.target_hash = last.source

\* C16: no uniqueness.  AddVertex(k, ...) for a key that has a row, and
\* AddEdge(s, t, ...) for a pair that has a row, succeed and add one more row of the
\* key (pair), and the count rises by one; RemoveVertex(k) and RemoveEdge(s, t)
\* delete every row of the key (pair), so the count drops by the number of these
\* rows; the Vertex(k) or Edge(s, t) that follows reports that there is no row.
C16_NoUniqueness ==
    [][ /\ (last'.op = "AddVertex" /\ Size(VertexRows(vertices, last'.hash)) > 0)
              => /\ last'.err = Nil
                 /\ Size(VertexRows(vertices', last'.hash))
                       = Size(VertexRows(vertices, last'.hash)) + 1
                 /\ CountVertices(vertices') = CountVertices(vertices) + 1
        /\ (last'.op = "AddEdge" /\ Size(EdgeRows(edges, last'.source, last'.target)) > 0)
              => /\ last'.err = Nil
                 /\ Size(EdgeRows(edges', last'.source, last'.target))
                       = Size(EdgeRows(edges, last'.source, last'.target)) + 1
                 /\ CountEdges(edges') = CountEdges(edges) + 1
        /\ last'.op = "RemoveVertex"
              => /\ last'.err = Nil
                 /\ Size(VertexRows(vertices', last'.hash)) = 0
                 /\ CountVertices(vertices')
                       = CountVertices(vertices) - Size(VertexRows(vertices, last'.hash))
        /\ last'.op = "RemoveEdge"
              => /\ last'.err = Nil
                 /\ Size(EdgeRows(edges', last'.source, last'.target)) = 0
                 /\ CountEdges(edges')
                       = CountEdges(edges) - Size(EdgeRows(edges, last'.source, last'.target))
        /\ (last.op = "RemoveVertex" /\ last'.op = "Vertex" /\ last'.hash = last.hash)
              => ErrorsIs(last'.err, ErrNoRows)
        /\ (last.op = "RemoveEdge" /\ last'.op = "Edge"
               /\ last'.source = last.source /\ last'.target = last.target)
              => last'.err = ErrEdgeNotFound ]_vars

\* AddVertex(k, ...) returned and the table holds three rows of key k, next to two
\* rows of one edge.
C16_Witness ==
    /\ last.op = "AddVertex" /\ last.err = Nil
    /\ Size(VertexRows(vertices, last.hash)) = 3
    /\ \E s \in Keys, t \in Keys : Size(EdgeRows(edges, s, t)) = 2

\* The number of rows of every ordered pair in E.
EdgeKeyCounts(E) == [p \in Keys \X Keys |-> Size(EdgeRows(E, p[1], p[2]))]

\* Table B2 is table B, or B and one more row.
AtMostOneRowAdded(B, B2) == B2 = B \/ \E r \in DOMAIN B2 : B2 = Insert(B, r)

\* What the steps of the vertex and edge operations do to the rows: AddVertex and
\* AddEdge add at most one row and change no row that is there, RemoveVertex and
\* RemoveEdge take rows of their key (pair) away and change no other row, and
\* UpdateEdge changes the rows of its pair only.
RowsKeepTheirContents ==
    /\ last'.op = "AddVertex" => AtMostOneRowAdded(vertices, vertices')
    /\ last'.op = "AddEdge" => AtMostOneRowAdded(edges, edges')
    /\ last'.op = "RemoveVertex"
          => vertices' = Select(vertices, {r \in DOMAIN vertices : r.hash # last'.hash})
    /\ last'.op \in {"RemoveEdge", "UpdateEdge"}
          => OtherEdgeRows(edges', last'.source, last'.target)
                = OtherEdgeRows(edges, last'.source, last'.target)

\* C17 as claimed: the vertex rows change only in AddVertex and RemoveVertex steps,
\* the rows that a pair has only in AddEdge and RemoveEdge steps, the contents of
\* edge rows only in UpdateEdge steps, and a vertex row is never changed between its
\* insertion and its removal.
C17_RowsChangeOnlyInDataSteps ==
    [][ /\ vertices' # vertices => last'.op \in {"AddVertex", "RemoveVertex"}
        /\ EdgeKeyCounts(edges') # EdgeKeyCounts(edges)
              => last'.op \in {"AddEdge", "RemoveEdge"}
        /\ (edges' # edges /\ EdgeKeyCounts(edges') = EdgeKeyCounts(edges))
              => last'.op = "UpdateEdge"
        /\ RowsKeepTheirContents ]_vars

\* C17, amended: as claimed, but DestroyTables, which drops the tables, takes all
\* the rows of a table it drops away.
C17_RowsChangeOnlyInTheirSteps ==
    [][ /\ vertices' # vertices
              => \/ last'.op \in {"AddVertex", "RemoveVertex"}
                 \/ last'.op = "DestroyTables" /\ vertices' = EmptyTable
        /\ EdgeKeyCounts(edges') # EdgeKeyCounts(edges)
              => \/ last'.op \in {"AddEdge", "RemoveEdge"}
                 \/ last'.op = "DestroyTables" /\ edges' = EmptyTable
        /\ (edges' # edges /\ EdgeKeyCounts(edges') = EdgeKeyCounts(edges))
              => last'.op = "UpdateEdge"
        /\ RowsKeepTheirContents ]_vars

\* UpdateEdge returned and a row of its pair carries the new weight, next to a
\* vertex row.
C17_Witness ==
    /\ last.op = "UpdateEdge"
    /\ \E r \in DOMAIN edges :
          /\ r.source_hash = last.source /\ r.target_hash = last.target
          /\ r.weight = TestEdgeProperties.Weight
    /\ Size(vertices) > 0

\* C18: ListVertices returns one key per vertex row (every key as often as it has
\* rows), so as many keys as VertexCount counts; ListEdges returns one edge per edge
\* row, with the Source and Target of the row (every pair as often as it has rows),
\* so as many edges as EdgeCount counts.
C18_ListAndCountAgree ==
    /\ last.op = "ListVertices" =>
          /\ last.err = Nil
          /\ Len(last.keys) = CountVertices(vertices)
          /\ \A k \in Keys :
                Cardinality({i \in 1..Len(last.keys) : last.keys[i] = k})
                   = Size(VertexRows(vertices, k))
    /\ last.op = "ListEdges" =>
          /\ last.err = Nil
          /\ Len(last.list) = CountEdges(edges)
          /\ \A s \in Keys, t \in Keys :
                Cardinality({i \in 1..Len(last.list) :
                               last.list[i].Source = s /\ last.list[i].Target = t})
                   = Size(EdgeRows(edges, s, t))

\* ListEdges returned two edges of one pair from a table with two equal rows.
C18_Witness ==
    /\ last.op = "ListEdges" /\ Len(last.list) = 2
    /\ last.list[1] = last.list[2]
    /\ Cardinality(DOMAIN edges) = 1

\* C19: with two concurrent callers, a caller is in flight between two statements
\* only in SetupTables or DestroyTables; every call that begins and returns in one
\* step (every vertex and edge operation, and a SetupTables or DestroyTables whose
\* first statement fails) is a step of the sequential store on the tables as they
\* are, so the calls in the order of their statements are a sequential run with the
\* same results and tables; and one table without the other exists only while a
\* SetupTables or DestroyTables is in flight.
C19_OneStatementCallsAreAtomic ==
    [][ /\ \A c \in Callers : calls'[c].op \in {"none", "SetupTables", "DestroyTables"}
        /\ calls' = calls => LifecycleNext
        /\ tables' \notin {{}, {VerticesTable, EdgesTable}}
              => \E c \in Callers : calls'[c].op \in {"SetupTables", "DestroyTables"} ]_vars

\* A caller's AddEdge failed for the missing edges table, after an AddVertex had
\* gone through, while the other caller was between the two statements of
\* SetupTables.
C19_Witness ==
    /\ last.op = "AddEdge" /\ last.err = ErrNoSuchTable
    /\ Size(vertices) > 0
    /\ \E c \in Callers : calls[c] = [op |-> "SetupTables", done |-> 1]

====
